---- MODULE Spec2Model ----
(***************************************************************************)
(* Reading-plan scheduling engine of Reading_planner                      *)
(* (src/plan_lectura.py, src/plan_lectura_bilingue.py).                   *)
(*                                                                         *)
(* Numbers.  Minutes, hours and rates are Python floats.  They are held   *)
(* here in fixed point: the real number x is the integer x * One, with    *)
(* One = 36000, so that a second (1/60 minute), a tenth of a second and   *)
(* a sixtieth of every quantity the inputs below produce are whole.       *)
(* Binary rounding of the floats is not represented.                      *)
(*                                                                         *)
(* Dates are day numbers, day 0 being a Monday.  A datetime is the number *)
(* of ticks (1/One minute) since day 0, 00:00; a datetime.time is the     *)
(* number of ticks since midnight; timedelta(minutes=m) is m itself.      *)
(***************************************************************************)
EXTENDS Integers, Sequences, FiniteSets, TLC

VARIABLES
    \* arguments of create_reading_plan
    book_schedule_list, start_date, end_date, daily_time_total_minutes,
    review_time_per_book_min, reading_speeds, reading_weekdays,
    start_time_books, start_time_review,
    \* locals of create_reading_plan
    events, books_completed, current_book_index, current_date,
    total_book_hours_calc, current_book_remaining_min,
    session_start_time, remaining_session_time,
    \* position in create_reading_plan and the value it returned
    pc, returned,
    \* escape_ics_text: argument, result, and the result read back
    text, escaped, unescaped, esc_pc,
    \* calculate_reading_time_*: arguments and results
    est_book, est_speeds, est_minutes, est_hours, est_pc,
    \* locals, position and returned value of create_reading_plan of
    \* plan_lectura_bilingue.py, called with the same arguments
    b_events, b_books_completed, b_current_book_index, b_current_date,
    b_total_book_hours_calc, b_current_book_remaining_min,
    b_session_start_time, b_remaining_session_time, b_pc, b_returned

argVars == <<book_schedule_list, start_date, end_date, daily_time_total_minutes,
             review_time_per_book_min, reading_speeds, reading_weekdays,
             start_time_books, start_time_review>>
localVars == <<events, books_completed, current_book_index, current_date,
               total_book_hours_calc, current_book_remaining_min,
               session_start_time, remaining_session_time>>
planVars == <<argVars, localVars, pc, returned>>
escVars == <<text, escaped, unescaped, esc_pc>>
estVars == <<est_book, est_speeds, est_minutes, est_hours, est_pc>>
b_localVars == <<b_events, b_books_completed, b_current_book_index,
                 b_current_date, b_total_book_hours_calc,
                 b_current_book_remaining_min, b_session_start_time,
                 b_remaining_session_time>>
biVars == <<b_localVars, b_pc, b_returned>>
vars == <<planVars, escVars, estVars, biVars>>

----------------------------------------------------------------------------
(* Bounds of the model *)

MaxBooks == 2
MaxSpan == 6
MaxLen == 4

----------------------------------------------------------------------------
(* Fixed point, dates and times *)

One == 60 * 600
SecondTicks == One \div 60
DayTicks == 24 * 60 * One
NoDate == 0 - 1

Min(a, b) == IF a <= b THEN a ELSE b
Abs(a) == IF a < 0 THEN 0 - a ELSE a

weekday_Iso(d) == (d % 7) + 1

weekday(d) == d % 7
combine_FirstDay(d, t) == start_date * DayTicks + t

combine(d, t) == d * DayTicks + t
DateOf(dt) == dt \div DayTicks
TimeOfDay(h, m) == (h * 60 + m) * One

\* strftime("%Y%m%dT%H%M%S"): the datetime cut to whole seconds
format_ics_datetime(dt) == (dt \div SecondTicks) * SecondTicks

\* round(x, 2), ties to even
round2(x) ==
    LET q == One \div 100
        lo == (x \div q) * q
        r == x - lo
    IN  IF 2 * r < q THEN lo
        ELSE IF 2 * r > q THEN lo + q
        ELSE IF (lo \div q) % 2 = 0 THEN lo ELSE lo + q

----------------------------------------------------------------------------
(* Time estimation *)

DefaultRate == 2 * One

Book(title, pages, category) ==
    [title |-> title, pages |-> pages, category |-> category]

DictGet_NoDefault(d, k, default) == IF k \in DOMAIN d THEN d[k] ELSE 0

DictGet(d, k, default) == IF k \in DOMAIN d THEN d[k] ELSE default

calculate_reading_time_minutes(book, speeds) ==
    book.pages * DictGet(speeds, book.category, DefaultRate)

calculate_reading_time_hours(book, speeds) ==
    calculate_reading_time_minutes(book, speeds) \div 60

\* speeds are entered as seconds per page
reading_speeds_dict(speed_d, speed_t, speed_a) ==
    [D |-> speed_d \div 60, T |-> speed_t \div 60, A |-> speed_a \div 60]

RECURSIVE SumHours_SkipFirst(_, _)
SumHours_SkipFirst(list, speeds) ==
    IF list = <<>> \/ Tail(list) = <<>> THEN 0
    ELSE calculate_reading_time_hours(Head(Tail(list)), speeds)
         + SumHours_SkipFirst(Tail(list), speeds)

RECURSIVE SumHours(_, _)
SumHours(list, speeds) ==
    IF list = <<>> THEN 0
    ELSE calculate_reading_time_hours(Head(list), speeds)
         + SumHours(Tail(list), speeds)

----------------------------------------------------------------------------
(* Events *)

Priority_Swapped(is_review) == IF is_review THEN 5 ELSE 3

Priority(is_review) == IF is_review THEN 3 ELSE 5

reminders_config ==
    [normal |-> <<[minutes |-> 5]>>, review |-> <<[minutes |-> 10]>>]

create_valarm_blocks(reminders) ==
    [i \in 1..Len(reminders) |-> reminders[i].minutes]

get_ics_uid(dt, title) == <<DateOf(dt), title>>

\* dt_start and minutes are the arguments of the call, kept beside the
\* fields of the appended dict
add_event(events_list, dt_start, minutes, summary, location, status, is_review) ==
    LET dt_end == dt_start + minutes
        active_reminders == IF is_review THEN reminders_config.review
                                         ELSE reminders_config.normal
    IN  Append(events_list,
               [uid |-> get_ics_uid(dt_start, summary),
                dtstart |-> format_ics_datetime(dt_start),
                dtend |-> format_ics_datetime(dt_end),
                summary |-> summary,
                location |-> location,
                status |-> status,
                valarms |-> create_valarm_blocks(active_reminders),
                priority |-> Priority(is_review),
                dt_start |-> dt_start,
                minutes |-> minutes])

ReadingSummary(book_name) == <<"LECTURA", book_name>>
ReviewSummary(book_name) == <<"REVISION COMPLETA", book_name>>
FinalSummary == <<"REVISION GENERAL FINAL", "">>

NextReadingDate_NoAdvance(review_date, weekdays) == review_date

RECURSIVE NextReadingDate(_, _)
NextReadingDate(review_date, weekdays) ==
    IF weekday(review_date) \in weekdays THEN review_date
    ELSE NextReadingDate(review_date + 1, weekdays)

schedule_book_review_Clipped(events_list, review_date, book_name, review_time_min, time_review, weekdays) ==
    IF NextReadingDate(review_date, weekdays) > end_date THEN events_list
    ELSE add_event(events_list,
                   combine(NextReadingDate(review_date, weekdays), time_review),
                   review_time_min, ReviewSummary(book_name),
                   "Espacio de estudio tranquilo", "CONFIRMED", TRUE)

schedule_book_review_Skip(events_list, review_date, book_name, review_time_min, time_review, weekdays) == events_list

schedule_book_review(events_list, review_date, book_name, review_time_min, time_review, weekdays) ==
    LET review_start_time == combine(NextReadingDate(review_date, weekdays),
                                     time_review)
    IN  add_event(events_list, review_start_time, review_time_min,
                  ReviewSummary(book_name), "Espacio de estudio tranquilo",
                  "CONFIRMED", TRUE)

----------------------------------------------------------------------------
(* escape_ics_text: a text is a sequence of one-character strings *)

BS == "\\"
NL == "\n"

\* str.replace(old, new) for a one-character old
RECURSIVE replace(_, _, _)
replace(s, old, new) ==
    IF s = <<>> THEN <<>>
    ELSE (IF Head(s) = old THEN new ELSE <<Head(s)>>)
         \o replace(Tail(s), old, new)

escape_ics_text_BackslashLast(s) ==
    replace(replace(replace(replace(s, ",", <<BS, ",">>),
                            ";", <<BS, ";">>),
                    NL, <<BS, "n">>),
            BS, <<BS, BS>>)

escape_ics_text(s) ==
    replace(replace(replace(replace(s, BS, <<BS, BS>>),
                            ",", <<BS, ",">>),
                    ";", <<BS, ";">>),
            NL, <<BS, "n">>)

\* the reader of the escaped text: left to right, a backslash takes the
\* character after it
RECURSIVE unescape_ics_text(_)
unescape_ics_text(s) ==
    IF s = <<>> THEN <<>>
    ELSE IF Head(s) = BS /\ Len(s) >= 2
         THEN <<IF s[2] = "n" THEN NL ELSE s[2]>>
              \o unescape_ics_text(SubSeq(s, 3, Len(s)))
         ELSE <<Head(s)>> \o unescape_ics_text(Tail(s))

----------------------------------------------------------------------------
(* create_reading_plan: the steps of the allocation loop *)

Threshold == One \div 10

NotBooks_Never(list) == FALSE

NotBooks(list) == Len(list) = 0

EmptyStats ==
    [total_events |-> 0, books_completed_count |-> 0, total_book_hours |-> 0]

TimeToDedicate_NoMin(session_time, book_remaining) == session_time

TimeToDedicate_BookOnly(session_time, book_remaining) == book_remaining

TimeToDedicate_Capped(session_time, book_remaining) ==
    Min(Min(session_time, book_remaining), 10 * One)

TimeToDedicate(session_time, book_remaining) ==
    Min(session_time, book_remaining)

IsComplete_Zero(book_remaining) == book_remaining <= 0

IsComplete(book_remaining) == book_remaining <= Threshold

FinalNeeded_Never(session_time) == FALSE

FinalNeeded_OrZero(session_time) == session_time >= 0

FinalNeeded(session_time) == session_time > 0

NextSessionStart_Stuck(session_start, minutes) == session_start

NextSessionStart(session_start, minutes) == session_start + minutes

TotalDays_Window(first_date, loop_date) == Abs(first_date - (end_date + 1))

TotalDays(first_date, loop_date) == Abs(first_date - loop_date)

NextDate_Stuck(loop_date) == loop_date

NextDate(loop_date) == loop_date + 1

AllBooksDone_Never(book_index, book_count) == FALSE

AllBooksDone(book_index, book_count) == book_index >= book_count

NextBookIndex_Skip(book_index) == book_index + 2

NextBookIndex(book_index) == book_index + 1

NothingToDedicate_Negative(minutes) == minutes < 0

NothingToDedicate(minutes) == minutes <= 0

\* lines 197-233: the empty-list return, else the initialisation
Begin ==
    /\ pc = "call"
    /\ IF NotBooks(book_schedule_list)
       THEN /\ returned' = <<<<>>, <<>>, EmptyStats>>
            /\ pc' = "done"
            /\ UNCHANGED localVars
       ELSE IF Len(book_schedule_list) = 0
       THEN \* book_schedule_list[0] raises IndexError
            /\ pc' = "raised"
            /\ UNCHANGED <<localVars, returned>>
       ELSE /\ events' = <<>>
            /\ books_completed' = <<>>
            /\ current_book_index' = 0
            /\ current_date' = start_date
            /\ total_book_hours_calc' =
                   SumHours(book_schedule_list, reading_speeds)
            /\ current_book_remaining_min' =
                   calculate_reading_time_minutes(book_schedule_list[1],
                                                  reading_speeds)
            /\ pc' = "outer"
            /\ UNCHANGED <<session_start_time, remaining_session_time, returned>>
    /\ UNCHANGED argVars

\* line 236 false: the window is over
LoopExit ==
    /\ pc = "outer"
    /\ ~ (current_date <= end_date)
    /\ pc' = "stats"
    /\ UNCHANGED <<argVars, localVars, returned>>

\* lines 236-240, weekday not selected
SkipDay ==
    /\ pc = "outer"
    /\ current_date <= end_date
    /\ weekday(current_date) \notin reading_weekdays
    /\ pc' = "advance"
    /\ UNCHANGED <<argVars, localVars, returned>>

\* lines 236-246, weekday selected
StartDay ==
    /\ pc = "outer"
    /\ current_date <= end_date
    /\ weekday(current_date) \in reading_weekdays
    /\ session_start_time' = combine(current_date, start_time_books)
    /\ remaining_session_time' = daily_time_total_minutes
    /\ pc' = "session"
    /\ UNCHANGED <<argVars, events, books_completed, current_book_index,
                   current_date, total_book_hours_calc,
                   current_book_remaining_min, returned>>

\* line 248 false
EndDay ==
    /\ pc = "session"
    /\ ~ (remaining_session_time > 0
          /\ current_book_index < Len(book_schedule_list))
    /\ pc' = "advance"
    /\ UNCHANGED <<argVars, localVars, returned>>

\* lines 248-329: one pass of the session loop
SessionStep ==
    /\ pc = "session"
    /\ remaining_session_time > 0
    /\ current_book_index < Len(book_schedule_list)
    /\ LET current_book == book_schedule_list[current_book_index + 1]
           book_name == current_book.title
           book_hours == calculate_reading_time_hours(current_book, reading_speeds)
           time_to_dedicate == TimeToDedicate(remaining_session_time,
                                              current_book_remaining_min)
           ev1 == add_event(events, session_start_time, time_to_dedicate,
                            ReadingSummary(book_name), "Sala de estudio",
                            "CONFIRMED", FALSE)
           rem1 == current_book_remaining_min - time_to_dedicate
           rs1 == remaining_session_time - time_to_dedicate
           sst1 == NextSessionStart(session_start_time, time_to_dedicate)
           ev2 == schedule_book_review(ev1, current_date + 1, book_name,
                                       review_time_per_book_min,
                                       start_time_review, reading_weekdays)
           idx1 == NextBookIndex(current_book_index)
       IN  IF NothingToDedicate(time_to_dedicate)
           THEN /\ pc' = "advance"
                /\ UNCHANGED localVars
           ELSE /\ session_start_time' = sst1
                /\ IF ~ IsComplete(rem1)
                   THEN /\ events' = ev1
                        /\ current_book_remaining_min' = rem1
                        /\ remaining_session_time' = rs1
                        /\ pc' = "session"
                        /\ UNCHANGED <<books_completed, current_book_index>>
                   ELSE /\ books_completed' =
                               Append(books_completed,
                                      [Libro |-> book_name,
                                       Horas |-> round2(book_hours),
                                       Fecha |-> current_date])
                        /\ current_book_index' = idx1
                        /\ IF idx1 < Len(book_schedule_list)
                           THEN /\ events' = ev2
                                /\ current_book_remaining_min' =
                                       calculate_reading_time_minutes(
                                           book_schedule_list[idx1 + 1],
                                           reading_speeds)
                                /\ remaining_session_time' = rs1
                                /\ pc' = "session"
                           ELSE /\ events' =
                                       IF FinalNeeded(rs1)
                                       THEN add_event(ev2, sst1, rs1,
                                                      FinalSummary, "",
                                                      "CONFIRMED", TRUE)
                                       ELSE ev2
                                /\ current_book_remaining_min' = rem1
                                /\ remaining_session_time' = 0
                                /\ pc' = "advance"
                /\ UNCHANGED <<current_date, total_book_hours_calc>>
    /\ UNCHANGED <<argVars, returned>>

\* lines 351-358
AdvanceDate ==
    /\ pc = "advance"
    /\ current_date' = NextDate(current_date)
    /\ pc' = IF AllBooksDone(current_book_index, Len(book_schedule_list))
             THEN "stats" ELSE "outer"
    /\ UNCHANGED <<argVars, events, books_completed, current_book_index,
                   total_book_hours_calc, current_book_remaining_min,
                   session_start_time, remaining_session_time, returned>>

\* lines 360-367
Return ==
    /\ pc = "stats"
    /\ returned' = <<events, books_completed,
                     [total_events |-> Len(events),
                      books_completed_count |-> Len(books_completed),
                      total_book_hours |-> total_book_hours_calc,
                      total_days |-> TotalDays(start_date, current_date)]>>
    /\ pc' = "done"
    /\ UNCHANGED <<argVars, localVars>>

----------------------------------------------------------------------------
(* plan_lectura_bilingue.py: its own copies of the helpers and of          *)
(* create_reading_plan.  Texts come from t(key, ...), a lookup in          *)
(* translations.json by language and key; a text is held as its key and    *)
(* its argument.                                                           *)

t(key, book) == <<key, book>>

B_calculate_reading_time_minutes(book, speeds) ==
    book.pages * DictGet(speeds, book.category, 2 * One)

B_calculate_reading_time_hours(book, speeds) ==
    B_calculate_reading_time_minutes(book, speeds) \div 60

B_get_ics_uid(date_obj, title) == <<DateOf(date_obj), title>>

B_format_ics_datetime(dt) == (dt \div SecondTicks) * SecondTicks

B_create_valarm_blocks(reminders) ==
    [i \in 1..Len(reminders) |-> reminders[i].minutes]

B_reminders_config ==
    [normal |-> <<[minutes |-> 5]>>, review |-> <<[minutes |-> 10]>>]

B_add_event(events_list, dt_start, minutes, summary, location, status, is_review) ==
    LET dt_end == dt_start + minutes
        active_reminders == IF is_review THEN B_reminders_config.review
                                         ELSE B_reminders_config.normal
    IN  Append(events_list,
               [uid |-> B_get_ics_uid(dt_start, summary),
                dtstart |-> B_format_ics_datetime(dt_start),
                dtend |-> B_format_ics_datetime(dt_end),
                summary |-> summary,
                location |-> location,
                status |-> status,
                valarms |-> B_create_valarm_blocks(active_reminders),
                priority |-> IF is_review THEN 3 ELSE 5,
                dt_start |-> dt_start,
                minutes |-> minutes])

RECURSIVE B_ReviewDate(_, _)
B_ReviewDate(review_date, weekdays) ==
    IF weekday(review_date) \notin weekdays
    THEN B_ReviewDate(review_date + 1, weekdays)
    ELSE review_date

B_schedule_book_review(events_list, review_date, book_name, review_time_min, time_review, weekdays) ==
    LET review_start_time == combine(B_ReviewDate(review_date, weekdays),
                                     time_review)
    IN  B_add_event(events_list, review_start_time, review_time_min,
                    t("review_session", book_name), t("quiet_space", ""),
                    "CONFIRMED", TRUE)

RECURSIVE B_SumHours(_, _)
B_SumHours(list, speeds) ==
    IF list = <<>> THEN 0
    ELSE B_calculate_reading_time_hours(Head(list), speeds)
         + B_SumHours(Tail(list), speeds)

\* lines 243-270
B_Begin ==
    /\ b_pc = "call"
    /\ IF Len(book_schedule_list) = 0
       THEN /\ b_returned' = <<<<>>, <<>>,
                               [total_events |-> 0,
                                books_completed_count |-> 0,
                                total_book_hours |-> 0]>>
            /\ b_pc' = "done"
            /\ UNCHANGED b_localVars
       ELSE /\ b_events' = <<>>
            /\ b_books_completed' = <<>>
            /\ b_current_book_index' = 0
            /\ b_current_date' = start_date
            /\ b_total_book_hours_calc' =
                   B_SumHours(book_schedule_list, reading_speeds)
            /\ b_current_book_remaining_min' =
                   B_calculate_reading_time_minutes(book_schedule_list[1],
                                                    reading_speeds)
            /\ b_pc' = "outer"
            /\ UNCHANGED <<b_session_start_time, b_remaining_session_time,
                           b_returned>>

\* line 272 false
B_LoopExit ==
    /\ b_pc = "outer"
    /\ ~ (b_current_date <= end_date)
    /\ b_pc' = "stats"
    /\ UNCHANGED <<b_localVars, b_returned>>

\* lines 272-275, weekday not selected
B_SkipDay ==
    /\ b_pc = "outer"
    /\ b_current_date <= end_date
    /\ weekday(b_current_date) \notin reading_weekdays
    /\ b_pc' = "advance"
    /\ UNCHANGED <<b_localVars, b_returned>>

\* lines 272-279, weekday selected
B_StartDay ==
    /\ b_pc = "outer"
    /\ b_current_date <= end_date
    /\ weekday(b_current_date) \in reading_weekdays
    /\ b_session_start_time' = combine(b_current_date, start_time_books)
    /\ b_remaining_session_time' = daily_time_total_minutes
    /\ b_pc' = "session"
    /\ UNCHANGED <<b_events, b_books_completed, b_current_book_index,
                   b_current_date, b_total_book_hours_calc,
                   b_current_book_remaining_min, b_returned>>

\* line 281 false
B_EndDay ==
    /\ b_pc = "session"
    /\ ~ (b_remaining_session_time > 0
          /\ b_current_book_index < Len(book_schedule_list))
    /\ b_pc' = "advance"
    /\ UNCHANGED <<b_localVars, b_returned>>

\* lines 281-359: one pass of the session loop
B_SessionStep ==
    /\ b_pc = "session"
    /\ b_remaining_session_time > 0
    /\ b_current_book_index < Len(book_schedule_list)
    /\ LET current_book == book_schedule_list[b_current_book_index + 1]
           book_name == current_book.title
           book_hours == B_calculate_reading_time_hours(current_book,
                                                        reading_speeds)
           time_to_dedicate == Min(b_remaining_session_time,
                                   b_current_book_remaining_min)
           ev1 == B_add_event(b_events, b_session_start_time,
                              time_to_dedicate,
                              t("reading_session", book_name),
                              t("study_room", ""), "CONFIRMED", FALSE)
           rem1 == b_current_book_remaining_min - time_to_dedicate
           rs1 == b_remaining_session_time - time_to_dedicate
           sst1 == b_session_start_time + time_to_dedicate
           ev2 == B_schedule_book_review(ev1, b_current_date + 1, book_name,
                                         review_time_per_book_min,
                                         start_time_review, reading_weekdays)
           idx1 == b_current_book_index + 1
       IN  IF time_to_dedicate <= 0
           THEN /\ b_pc' = "advance"
                /\ UNCHANGED b_localVars
           ELSE /\ b_session_start_time' = sst1
                /\ IF ~ (rem1 <= One \div 10)
                   THEN /\ b_events' = ev1
                        /\ b_current_book_remaining_min' = rem1
                        /\ b_remaining_session_time' = rs1
                        /\ b_pc' = "session"
                        /\ UNCHANGED <<b_books_completed,
                                       b_current_book_index>>
                   ELSE /\ b_books_completed' =
                               Append(b_books_completed,
                                      [book_title |-> book_name,
                                       total_hours |-> round2(book_hours),
                                       end_date |-> b_current_date])
                        /\ b_current_book_index' = idx1
                        /\ IF idx1 < Len(book_schedule_list)
                           THEN /\ b_events' = ev2
                                /\ b_current_book_remaining_min' =
                                       B_calculate_reading_time_minutes(
                                           book_schedule_list[idx1 + 1],
                                           reading_speeds)
                                /\ b_remaining_session_time' = rs1
                                /\ b_pc' = "session"
                           ELSE /\ b_events' =
                                       IF rs1 > 0
                                       THEN B_add_event(ev2, sst1, rs1,
                                                        t("final_review", ""),
                                                        "", "CONFIRMED", TRUE)
                                       ELSE ev2
                                /\ b_current_book_remaining_min' = rem1
                                /\ b_remaining_session_time' = 0
                                /\ b_pc' = "advance"
                /\ UNCHANGED <<b_current_date, b_total_book_hours_calc>>
    /\ UNCHANGED b_returned

\* lines 361-364
B_AdvanceDate ==
    /\ b_pc = "advance"
    /\ b_current_date' = b_current_date + 1
    /\ b_pc' = IF b_current_book_index >= Len(book_schedule_list)
               THEN "stats" ELSE "outer"
    /\ UNCHANGED <<b_events, b_books_completed, b_current_book_index,
                   b_total_book_hours_calc, b_current_book_remaining_min,
                   b_session_start_time, b_remaining_session_time,
                   b_returned>>

\* lines 366-373
B_Return ==
    /\ b_pc = "stats"
    /\ b_returned' = <<b_events, b_books_completed,
                       [total_events |-> Len(b_events),
                        books_completed_count |-> Len(b_books_completed),
                        total_book_hours |-> b_total_book_hours_calc,
                        total_days |-> Abs(start_date - b_current_date)]>>
    /\ b_pc' = "done"
    /\ UNCHANGED b_localVars

----------------------------------------------------------------------------
(* Inputs *)

Titles == <<"B1", "B2", "B3", "B4">>
PageChoices == {1, 10, 44}
Categories == {"T", "X"}

\* seconds per page as entered: 120, 20.5 and 180
SpeedTable ==
    reading_speeds_dict(120 * One, (205 * One) \div 10, 180 * One)

BookLists ==
    UNION { { [i \in 1..n |-> Book(Titles[i], c[i][1], c[i][2])] :
                c \in [1..n -> PageChoices \X Categories] } : n \in 0..MaxBooks }

WeekdaySets == { {0, 2}, {0, 1, 2, 3, 4, 5} }
Budgets == { 15 * One, 20 * One }
ReviewMinutes == { 30 * One }
StartDates == { 0, 1 }
BookStartTimes == { TimeOfDay(10, 0), TimeOfDay(23, 58) }
ReviewStartTimes == { TimeOfDay(19, 0), TimeOfDay(0, 0) }

PlanIdle ==
    /\ book_schedule_list = <<>>
    /\ start_date = 0
    /\ end_date = 0
    /\ daily_time_total_minutes = 0
    /\ review_time_per_book_min = 0
    /\ reading_speeds = SpeedTable
    /\ reading_weekdays = {}
    /\ start_time_books = 0
    /\ start_time_review = 0
    /\ events = <<>>
    /\ books_completed = <<>>
    /\ current_book_index = 0
    /\ current_date = NoDate
    /\ total_book_hours_calc = 0
    /\ current_book_remaining_min = 0
    /\ session_start_time = 0
    /\ remaining_session_time = 0
    /\ pc = "idle"
    /\ returned = <<>>

BiIdle ==
    /\ b_events = <<>>
    /\ b_books_completed = <<>>
    /\ b_current_book_index = 0
    /\ b_current_date = NoDate
    /\ b_total_book_hours_calc = 0
    /\ b_current_book_remaining_min = 0
    /\ b_session_start_time = 0
    /\ b_remaining_session_time = 0
    /\ b_pc = "idle"
    /\ b_returned = <<>>

EscIdle ==
    /\ text = <<>>
    /\ escaped = <<>>
    /\ unescaped = <<>>
    /\ esc_pc = "idle"

EstIdle ==
    /\ est_book = Book("", 0, "")
    /\ est_speeds = SpeedTable
    /\ est_minutes = 0
    /\ est_hours = 0
    /\ est_pc = "idle"

Init ==
    /\ book_schedule_list \in BookLists
    /\ start_date \in StartDates
    /\ end_date \in { start_date + n : n \in 1..MaxSpan }
    /\ daily_time_total_minutes \in Budgets
    /\ review_time_per_book_min \in ReviewMinutes
    /\ reading_speeds = SpeedTable
    /\ reading_weekdays \in WeekdaySets
    /\ start_time_books \in BookStartTimes
    /\ start_time_review \in ReviewStartTimes
    /\ events = <<>>
    /\ books_completed = <<>>
    /\ current_book_index = 0
    /\ current_date = NoDate
    /\ total_book_hours_calc = 0
    /\ current_book_remaining_min = 0
    /\ session_start_time = 0
    /\ remaining_session_time = 0
    /\ pc = "call"
    /\ returned = <<>>
    /\ EscIdle
    /\ EstIdle
    /\ BiIdle

Next ==
    \/ Begin /\ UNCHANGED <<escVars, estVars, biVars>>
    \/ LoopExit /\ UNCHANGED <<escVars, estVars, biVars>>
    \/ SkipDay /\ UNCHANGED <<escVars, estVars, biVars>>
    \/ StartDay /\ UNCHANGED <<escVars, estVars, biVars>>
    \/ EndDay /\ UNCHANGED <<escVars, estVars, biVars>>
    \/ SessionStep /\ UNCHANGED <<escVars, estVars, biVars>>
    \/ AdvanceDate /\ UNCHANGED <<escVars, estVars, biVars>>
    \/ Return /\ UNCHANGED <<escVars, estVars, biVars>>

Spec == Init /\ [][Next]_vars

\* create_reading_plan called with any arguments: also an empty weekday
\* set, a zero budget, and a window that is empty or a single day
EngineInit ==
    /\ book_schedule_list \in BookLists
    /\ start_date \in StartDates
    /\ end_date \in { start_date + n : n \in (0 - 1)..MaxSpan }
    /\ daily_time_total_minutes \in Budgets \cup {0}
    /\ review_time_per_book_min \in ReviewMinutes
    /\ reading_speeds = SpeedTable
    /\ reading_weekdays \in WeekdaySets \cup {{}}
    /\ start_time_books = TimeOfDay(10, 0)
    /\ start_time_review = TimeOfDay(19, 0)
    /\ events = <<>>
    /\ books_completed = <<>>
    /\ current_book_index = 0
    /\ current_date = NoDate
    /\ total_book_hours_calc = 0
    /\ current_book_remaining_min = 0
    /\ session_start_time = 0
    /\ remaining_session_time = 0
    /\ pc = "call"
    /\ returned = <<>>
    /\ EscIdle
    /\ EstIdle
    /\ BiIdle

EngineSpec == EngineInit /\ [][Next]_vars

\* the call is single-threaded and runs without suspension: a step that
\* can be taken is taken
EngineFairSpec == EngineInit /\ [][Next]_vars /\ WF_vars(Next)

\* create_reading_plan called with a list in which a book may have no pages,
\* and with a single reading weekday as well
ZeroPageChoices == {0, 10}

ZeroBookLists ==
    UNION { { [i \in 1..n |-> Book(Titles[i], c[i][1], c[i][2])] :
                c \in [1..n -> ZeroPageChoices \X Categories] } :
            n \in 0..MaxBooks }

ZeroInit ==
    /\ book_schedule_list \in ZeroBookLists
    /\ start_date \in StartDates
    /\ end_date \in { start_date + n : n \in 1..MaxSpan }
    /\ daily_time_total_minutes \in Budgets
    /\ review_time_per_book_min \in ReviewMinutes
    /\ reading_speeds = SpeedTable
    /\ reading_weekdays \in WeekdaySets \cup {{2}}
    /\ start_time_books = TimeOfDay(10, 0)
    /\ start_time_review = TimeOfDay(19, 0)
    /\ events = <<>>
    /\ books_completed = <<>>
    /\ current_book_index = 0
    /\ current_date = NoDate
    /\ total_book_hours_calc = 0
    /\ current_book_remaining_min = 0
    /\ session_start_time = 0
    /\ remaining_session_time = 0
    /\ pc = "call"
    /\ returned = <<>>
    /\ EscIdle
    /\ EstIdle
    /\ BiIdle

ZeroSpec == ZeroInit /\ [][Next]_vars

\* both variants called with the same arguments, each step of one taken
\* together with the same step of the other
BiInit ==
    /\ book_schedule_list \in BookLists
    /\ start_date \in StartDates
    /\ end_date \in { start_date + n : n \in 1..MaxSpan }
    /\ daily_time_total_minutes \in Budgets
    /\ review_time_per_book_min \in ReviewMinutes
    /\ reading_speeds = SpeedTable
    /\ reading_weekdays \in WeekdaySets
    /\ start_time_books \in BookStartTimes
    /\ start_time_review = TimeOfDay(19, 0)
    /\ events = <<>>
    /\ books_completed = <<>>
    /\ current_book_index = 0
    /\ current_date = NoDate
    /\ total_book_hours_calc = 0
    /\ current_book_remaining_min = 0
    /\ session_start_time = 0
    /\ remaining_session_time = 0
    /\ pc = "call"
    /\ returned = <<>>
    /\ b_events = <<>>
    /\ b_books_completed = <<>>
    /\ b_current_book_index = 0
    /\ b_current_date = NoDate
    /\ b_total_book_hours_calc = 0
    /\ b_current_book_remaining_min = 0
    /\ b_session_start_time = 0
    /\ b_remaining_session_time = 0
    /\ b_pc = "call"
    /\ b_returned = <<>>
    /\ EscIdle
    /\ EstIdle

BiNext ==
    \/ Begin /\ B_Begin /\ UNCHANGED <<escVars, estVars>>
    \/ LoopExit /\ B_LoopExit /\ UNCHANGED <<escVars, estVars>>
    \/ SkipDay /\ B_SkipDay /\ UNCHANGED <<escVars, estVars>>
    \/ StartDay /\ B_StartDay /\ UNCHANGED <<escVars, estVars>>
    \/ EndDay /\ B_EndDay /\ UNCHANGED <<escVars, estVars>>
    \/ SessionStep /\ B_SessionStep /\ UNCHANGED <<escVars, estVars>>
    \/ AdvanceDate /\ B_AdvanceDate /\ UNCHANGED <<escVars, estVars>>
    \/ Return /\ B_Return /\ UNCHANGED <<escVars, estVars>>

BiSpec == BiInit /\ [][BiNext]_vars

----------------------------------------------------------------------------
(* escape_ics_text applied to bounded texts *)

Alphabet == {BS, ",", ";", NL, "a", "n"}
Texts == UNION { [1..n -> Alphabet] : n \in 0..MaxLen }

EscInit ==
    /\ PlanIdle
    /\ EstIdle
    /\ BiIdle
    /\ text \in Texts
    /\ escaped = <<>>
    /\ unescaped = <<>>
    /\ esc_pc = "call"

Escape ==
    /\ esc_pc = "call"
    /\ escaped' = escape_ics_text(text)
    /\ esc_pc' = "escaped"
    /\ UNCHANGED <<text, unescaped>>

ReadBack ==
    /\ esc_pc = "escaped"
    /\ unescaped' = unescape_ics_text(escaped)
    /\ esc_pc' = "read"
    /\ UNCHANGED <<text, escaped>>

EscNext ==
    \/ Escape /\ UNCHANGED <<planVars, estVars, biVars>>
    \/ ReadBack /\ UNCHANGED <<planVars, estVars, biVars>>

EscSpec == EscInit /\ [][EscNext]_vars

----------------------------------------------------------------------------
(* calculate_reading_time_minutes / _hours applied to bounded inputs *)

EstPages == {1, 10, 44}
EstCategories == {"D", "T", "A", "X"}
EstTables == { [k \in S |-> SpeedTable[k]] : S \in SUBSET {"D", "T", "A"} }

EstInit ==
    /\ PlanIdle
    /\ EscIdle
    /\ BiIdle
    /\ est_book \in { Book("B1", p, c) : p \in EstPages, c \in EstCategories }
    /\ est_speeds \in EstTables
    /\ est_minutes = 0
    /\ est_hours = 0
    /\ est_pc = "call"

CallMinutes ==
    /\ est_pc = "call"
    /\ est_minutes' = calculate_reading_time_minutes(est_book, est_speeds)
    /\ est_pc' = "minutes"
    /\ UNCHANGED <<est_book, est_speeds, est_hours>>

CallHours ==
    /\ est_pc = "minutes"
    /\ est_hours' = calculate_reading_time_hours(est_book, est_speeds)
    /\ est_pc' = "hours"
    /\ UNCHANGED <<est_book, est_speeds, est_minutes>>

EstNext ==
    \/ CallMinutes /\ UNCHANGED <<planVars, escVars, biVars>>
    \/ CallHours /\ UNCHANGED <<planVars, escVars, biVars>>

EstSpec == EstInit /\ [][EstNext]_vars

----------------------------------------------------------------------------
(* Properties *)

IsReading(e) == e.summary[1] = "LECTURA"
IsBookReview(e) == e.summary[1] = "REVISION COMPLETA"
IsFinal(e) == e.summary = FinalSummary

Required(i) ==
    calculate_reading_time_minutes(book_schedule_list[i], reading_speeds)

\* minutes of the reading sessions of one title in an event list
RECURSIVE SessionMinutes(_, _)
SessionMinutes(evs, title) ==
    IF evs = <<>> THEN 0
    ELSE (IF Head(evs).summary = ReadingSummary(title)
          THEN Head(evs).minutes ELSE 0)
         + SessionMinutes(Tail(evs), title)

AllCompleted ==
    /\ pc = "done"
    /\ book_schedule_list # <<>>
    /\ current_book_index = Len(book_schedule_list)

\* C1 (as stated): once every book is completed, the reading sessions of
\* each book add up to exactly its required minutes.
C1_ConservationExact ==
    AllCompleted =>
        \A i \in 1..Len(book_schedule_list) :
            SessionMinutes(events, book_schedule_list[i].title) = Required(i)

\* C1 (amended): once every book is completed, the reading sessions of each
\* book add up to its required minutes less the residue dropped at
\* completion, which is between 0 and the completion tolerance of 0.1 minute.
C1_ConservationWithinTolerance ==
    AllCompleted =>
        \A i \in 1..Len(book_schedule_list) :
            LET short == Required(i)
                         - SessionMinutes(events, book_schedule_list[i].title)
            IN  0 <= short /\ short <= Threshold

C1_Witness ==
    /\ AllCompleted
    /\ Len(book_schedule_list) = 2
    /\ SessionMinutes(events, book_schedule_list[1].title) < Required(1)
    /\ SessionMinutes(events, book_schedule_list[2].title) = Required(2)

\* C2 (as stated): the whole event list is in non-decreasing start order.
C2_OrderingWholeList ==
    \A i, j \in 1..Len(events) :
        i < j => events[i].dt_start <= events[j].dt_start

\* C2 (amended): the reading sessions together with the final integration
\* event are in increasing start order, and the per-book review events are
\* in non-decreasing start order among themselves; a review event, appended
\* when its book completes, may precede events that start before it.
C2_OrderingBySubsequence ==
    \A i, j \in 1..Len(events) :
        i < j =>
            /\ (~ IsBookReview(events[i]) /\ ~ IsBookReview(events[j]))
                   => events[i].dt_start < events[j].dt_start
            /\ (IsBookReview(events[i]) /\ IsBookReview(events[j]))
                   => events[i].dt_start <= events[j].dt_start

C2_Witness ==
    /\ pc = "done"
    /\ \E i, j, k \in 1..Len(events) :
          /\ i < j /\ j < k
          /\ IsBookReview(events[i]) /\ IsReading(events[j])
          /\ IsBookReview(events[k])
          /\ events[j].dt_start < events[i].dt_start
    /\ IsFinal(events[Len(events)])

\* C3: no two reading sessions overlap, neither as allocated nor as
\* written to the event (dtstart, dtend).
C3_NoOverlap ==
    \A i, j \in 1..Len(events) :
        (i # j /\ IsReading(events[i]) /\ IsReading(events[j])) =>
            /\ \/ events[i].dt_start + events[i].minutes <= events[j].dt_start
               \/ events[j].dt_start + events[j].minutes <= events[i].dt_start
            /\ \/ events[i].dtend <= events[j].dtstart
               \/ events[j].dtend <= events[i].dtstart

C3_Witness ==
    \E i, j, k \in 1..Len(events) :
        /\ IsReading(events[i]) /\ IsReading(events[j]) /\ IsReading(events[k])
        /\ DateOf(events[i].dt_start) < DateOf(events[j].dt_start)
        /\ events[j].dt_start + events[j].minutes = events[k].dt_start

C5_WeekdayFilter ==
    \A i \in 1..Len(events) :
        weekday(DateOf(events[i].dt_start)) \in reading_weekdays

\* C6: a step of the session loop appends a book to the ledger exactly when
\* the book's required minutes less its session minutes so far are at most
\* 0.1, and the ledger changes in no other step; a 20-minute book on a
\* 15-minute budget gets sessions of 15 and 5 minutes on the first two
\* reading days and is completed on the second.
C6_Step ==
    /\ books_completed' # books_completed => events' # events
    /\ (pc = "session" /\ events' # events) =>
          LET i == current_book_index + 1
              title == book_schedule_list[i].title
              left == Required(i) - SessionMinutes(events', title)
          IN  (left <= Threshold) <=>
                  /\ Len(books_completed') = Len(books_completed) + 1
                  /\ books_completed'[Len(books_completed')].Libro = title

C6_Example ==
    (/\ pc = "done"
     /\ book_schedule_list # <<>>
     /\ Required(1) = 20 * One
     /\ daily_time_total_minutes = 15 * One
     /\ Len(books_completed) >= 1) =>
        LET day1 == NextReadingDate(start_date, reading_weekdays)
            day2 == NextReadingDate(day1 + 1, reading_weekdays)
        IN  /\ IsReading(events[1]) /\ IsReading(events[2])
            /\ events[1].minutes = 15 * One
            /\ events[2].minutes = 5 * One
            /\ events[1].dt_start = combine(day1, start_time_books)
            /\ events[2].dt_start = combine(day2, start_time_books)
            /\ books_completed[1].Fecha = day2

C6_CompletionThreshold == [][C6_Step]_vars /\ []C6_Example

C6_Witness ==
    /\ pc = "done"
    /\ Len(book_schedule_list) = 2
    /\ Required(1) = 20 * One
    /\ daily_time_total_minutes = 15 * One
    /\ Len(books_completed) = 2
    /\ books_completed[1].Fecha < books_completed[2].Fecha

\* C7: on return from a run with books, total_days is the distance between
\* start_date and the loop date at the moment the loop stopped; when every
\* book was completed it is the last completion date plus one day less
\* start_date, whatever end_date is.
C7_TotalDays ==
    (pc = "done" /\ book_schedule_list # <<>>) =>
        /\ returned[3].total_days = Abs(start_date - current_date)
        /\ current_book_index = Len(book_schedule_list) =>
              returned[3].total_days
                  = books_completed[Len(books_completed)].Fecha + 1 - start_date
        /\ current_book_index < Len(book_schedule_list) =>
              returned[3].total_days = end_date + 1 - start_date

C7_Witness ==
    /\ AllCompleted
    /\ books_completed[Len(books_completed)].Fecha + 1 < end_date
    /\ returned[3].total_days < end_date - start_date

\* C8: with an empty book list the call returns ([], [], zero statistics)
\* at once: no date is visited and no event is appended.
C8_EmptyInput ==
    book_schedule_list = <<>> =>
        /\ pc \in {"idle", "call", "done"}
        /\ events = <<>> /\ books_completed = <<>>
        /\ current_date = NoDate
        /\ pc = "done" => returned = <<<<>>, <<>>, EmptyStats>>

C8_Witness ==
    /\ book_schedule_list = <<>>
    /\ pc = "done"
    /\ reading_weekdays = {0, 2}
    /\ returned[3].total_events = 0

\* C9: reading back the escaped text gives the original text.
C9_EscapeRoundTrip ==
    esc_pc = "read" => unescaped = text

C9_Witness ==
    /\ esc_pc = "read"
    /\ {BS, ",", ";", NL} \subseteq { text[i] : i \in 1..Len(text) }
    /\ Len(escaped) = 2 * Len(text)

\* C10: the minutes are pages times the table's rate for the category, or
\* pages times 2.0 when the category is not in the table; the hours are the
\* minutes divided by 60; the calls always return.
C10_TimeEstimation ==
    /\ est_pc \in {"idle", "call", "minutes", "hours"}
    /\ est_pc \in {"minutes", "hours"} =>
          est_minutes =
              IF est_book.category \in DOMAIN est_speeds
              THEN est_book.pages * est_speeds[est_book.category]
              ELSE est_book.pages * 2 * One
    /\ est_pc = "hours" => est_hours * 60 = est_minutes

C10_Witness ==
    /\ est_pc = "hours"
    /\ est_book.category \notin DOMAIN est_speeds
    /\ est_speeds # <<>>
    /\ est_hours > 0

\* C11: given books and an empty weekday set, the call ends in an error
\* before the day loop runs.
C11_EmptyWeekdaysRejected ==
    (book_schedule_list # <<>> /\ reading_weekdays = {}) =>
        pc \in {"call", "raised"}

\* C12: every call returns; review scheduling is entered only with a
\* non-empty weekday set, and its date search advances fewer than 7 times.
C12_ReviewSearchBounded ==
    /\ books_completed # <<>> => reading_weekdays # {}
    /\ \A i \in 1..Len(events) :
          IsBookReview(events[i]) =>
              \E k \in 1..Len(books_completed) :
                  /\ books_completed[k].Libro = events[i].summary[2]
                  /\ DateOf(events[i].dt_start) - (books_completed[k].Fecha + 1)
                         \in 0..6

C12_Termination == <>(pc = "done") /\ []C12_ReviewSearchBounded

C12_Witness ==
    /\ pc = "done"
    /\ book_schedule_list # <<>>
    /\ reading_weekdays = {}
    /\ end_date > start_date
    /\ returned[3].total_days = end_date + 1 - start_date

LastCompletion == books_completed[Len(books_completed)].Fecha
TitleAt(i) == book_schedule_list[i].title
InLedger(title) ==
    \E k \in 1..Len(books_completed) : books_completed[k].Libro = title
BookReviews(evs) == SelectSeq(evs, IsBookReview)

\* C13: when the window ends with books unfinished the call returns the
\* events and the ledger as accumulated, without an error, and the ledger
\* holds exactly the books whose remaining minutes reached the threshold.
C13_EndOfWindow ==
    /\ pc # "raised"
    /\ (pc = "done" /\ current_book_index < Len(book_schedule_list)) =>
          /\ current_date = end_date + 1
          /\ returned[1] = events
          /\ returned[2] = books_completed
          /\ Len(books_completed) = current_book_index
          /\ \A i \in 1..Len(book_schedule_list) :
                InLedger(TitleAt(i)) <=>
                    Required(i) - SessionMinutes(events, TitleAt(i)) <= Threshold

C13_Witness ==
    /\ pc = "done"
    /\ Len(book_schedule_list) = 2
    /\ current_book_index = 1
    /\ SessionMinutes(events, TitleAt(2)) > 0

\* C14: on return from a run with books, total_events is the length of the
\* returned event list, books_completed_count the length of the returned
\* ledger, and total_book_hours the sum of the required hours of every book
\* of the input list, scheduled or not.
RECURSIVE HoursOfFirst(_)
HoursOfFirst(n) ==
    IF n = 0 THEN 0 ELSE HoursOfFirst(n - 1) + Required(n) \div 60

C14_Statistics ==
    (pc = "done" /\ book_schedule_list # <<>>) =>
        /\ returned[3].total_events = Len(returned[1])
        /\ returned[3].books_completed_count = Len(returned[2])
        /\ returned[3].total_book_hours = HoursOfFirst(Len(book_schedule_list))

C14_Witness ==
    /\ pc = "done"
    /\ Len(book_schedule_list) = 2
    /\ returned[3].books_completed_count = 0
    /\ returned[3].total_events > 0
    /\ SessionMinutes(events, TitleAt(2)) = 0
    /\ returned[3].total_book_hours > Required(1) \div 60

\* C15: the per-book review events and the final integration event have
\* priority 3 and the 10-minute reminder, the reading sessions priority 5
\* and the 5-minute reminder.
C15_PriorityTier ==
    \A i \in 1..Len(events) :
        /\ (IsBookReview(events[i]) \/ IsFinal(events[i])) =>
              events[i].priority = 3 /\ events[i].valarms = <<10>>
        /\ IsReading(events[i]) =>
              events[i].priority = 5 /\ events[i].valarms = <<5>>
        /\ IsReading(events[i]) \/ IsBookReview(events[i]) \/ IsFinal(events[i])

C15_Witness ==
    /\ pc = "session"
    /\ \E i, j \in 1..Len(events) :
          /\ IsReading(events[i]) /\ IsBookReview(events[j])
          /\ events[j].priority < events[i].priority

\* C16: a step that appends a book to the ledger appends exactly one review
\* event, for that book, and no other step appends a review event; so the
\* review events are as many as the ledger records and each is for a book
\* in the ledger.
C16_Step ==
    /\ books_completed' # books_completed =>
          /\ Len(books_completed') = Len(books_completed) + 1
          /\ Len(BookReviews(events')) = Len(BookReviews(events)) + 1
          /\ BookReviews(events')[Len(BookReviews(events'))].summary[2]
                 = books_completed'[Len(books_completed')].Libro
    /\ BookReviews(events') # BookReviews(events) =>
          books_completed' # books_completed

C16_Count ==
    /\ Len(BookReviews(events)) = Len(books_completed)
    /\ \A i \in 1..Len(events) :
          IsBookReview(events[i]) => InLedger(events[i].summary[2])

C16_OneReviewPerCompletion == [][C16_Step]_vars /\ []C16_Count

C16_Witness ==
    /\ pc = "session"
    /\ Len(books_completed) = 1
    /\ Len(BookReviews(events)) = 1
    /\ Len(events) = 2

\* C17: the k-th review event is dated on the earliest date, from the day
\* after the k-th completion on, whose weekday is a reading weekday, and
\* starts at the review start time of that date.
EarliestReadingDate(from) ==
    CHOOSE y \in from..(from + 6) :
        /\ weekday(y) \in reading_weekdays
        /\ \A z \in from..(y - 1) : weekday(z) \notin reading_weekdays

C17_ReviewDate ==
    \A k \in 1..Len(books_completed) :
        LET review == BookReviews(events)[k]
            day == EarliestReadingDate(books_completed[k].Fecha + 1)
        IN  /\ review.summary[2] = books_completed[k].Libro
            /\ review.dt_start = day * DayTicks + start_time_review
            /\ review.dtstart = review.dt_start

C17_Witness ==
    /\ Len(books_completed) = 2
    /\ weekday(books_completed[1].Fecha + 1) \in reading_weekdays
    /\ weekday(books_completed[2].Fecha + 1) \notin reading_weekdays
    /\ DateOf(BookReviews(events)[2].dt_start) > books_completed[2].Fecha + 1

\* C18: the book index stays within 0..len(books) and the remaining minutes
\* of the current book never go below 0; once the index is len(books) no
\* event is appended any more and the outer loop leaves at its next test.
C18_State ==
    /\ current_book_index \in 0..Len(book_schedule_list)
    /\ current_book_remaining_min >= 0
    /\ (book_schedule_list # <<>>
        /\ current_book_index = Len(book_schedule_list)) =>
           pc \in {"advance", "stats", "done"}

C18_Step ==
    (book_schedule_list # <<>>
     /\ current_book_index = Len(book_schedule_list)) =>
        /\ events' = events
        /\ current_book_index' = current_book_index
        /\ pc = "advance" => pc' = "stats"

C18_PlanState == []C18_State /\ [][C18_Step]_vars

C18_Witness ==
    /\ pc = "stats"
    /\ current_book_index = Len(book_schedule_list)
    /\ Len(book_schedule_list) = 2
    /\ current_date <= end_date
    /\ current_book_remaining_min > 0

\* C19: from the completion of the last book, on date d, the loop date is
\* d until it is advanced once and the loop is left; no further date is
\* processed, and the list ends with the last book's review event or with
\* the final integration event right after it.
C19_State ==
    (book_schedule_list # <<>>
     /\ current_book_index = Len(book_schedule_list)) =>
        /\ \/ pc = "advance" /\ current_date = LastCompletion
           \/ pc \in {"stats", "done"} /\ current_date = LastCompletion + 1
        /\ LET n == Len(events)
               last_title == TitleAt(Len(book_schedule_list))
           IN  \/ events[n].summary = ReviewSummary(last_title)
               \/ /\ IsFinal(events[n])
                  /\ events[n - 1].summary = ReviewSummary(last_title)

C19_Step ==
    (book_schedule_list # <<>>
     /\ current_book_index = Len(book_schedule_list)) =>
        /\ events' = events
        /\ books_completed' = books_completed
        /\ pc' \in {"stats", "done"}

C19_EarlyExit == []C19_State /\ [][C19_Step]_vars

C19_Witness ==
    /\ pc = "done"
    /\ book_schedule_list # <<>>
    /\ current_book_index = Len(book_schedule_list)
    /\ current_date < end_date
    /\ IsFinal(events[Len(events)])
    /\ returned[3].total_events = Len(events)

\* C20: there is at most one final integration event; it exists exactly
\* when the session that completed the last book left session minutes over;
\* it is then the last event, review-tier, starts where the last reading
\* session ended and lasts the minutes the day had left; there is none while
\* a book is unfinished.
DayReadingMinutes(d) ==
    LET from == combine(d, start_time_books)
        OnDay(e) == IsReading(e) /\ from <= e.dt_start
                    /\ e.dt_start < from + DayTicks
        RECURSIVE Sum(_)
        Sum(evs) == IF evs = <<>> THEN 0
                    ELSE (IF OnDay(Head(evs)) THEN Head(evs).minutes ELSE 0)
                         + Sum(Tail(evs))
    IN  Sum(events)

C20_FinalEvent ==
    LET finals == { i \in 1..Len(events) : IsFinal(events[i]) }
        all_done == /\ book_schedule_list # <<>>
                    /\ current_book_index = Len(book_schedule_list)
    IN  /\ Cardinality(finals) <= 1
        /\ ~ all_done => finals = {}
        /\ all_done =>
              (finals # {} <=>
                   DayReadingMinutes(LastCompletion) < daily_time_total_minutes)
        /\ \A i \in finals :
              LET e == events[i]
                  used == DayReadingMinutes(LastCompletion)
              IN  /\ i = Len(events)
                  /\ e.priority = 3 /\ e.valarms = <<10>>
                  /\ e.minutes = daily_time_total_minutes - used
                  /\ IsReading(events[i - 2])
                  /\ e.dt_start = events[i - 2].dt_start + events[i - 2].minutes
                  /\ e.dt_start = combine(LastCompletion, start_time_books) + used

C20_Witness ==
    /\ pc = "done"
    /\ Len(book_schedule_list) = 2
    /\ IsFinal(events[Len(events)])
    /\ books_completed[1].Fecha = books_completed[2].Fecha
    /\ events[Len(events)].minutes < daily_time_total_minutes - One

\* C21: an iteration of the date loop whose date falls on a weekday outside
\* the reading weekdays appends no event and no ledger record and leaves the
\* book index and the book's remaining minutes as they were; it never enters
\* the session loop, and the only change to the loop date is one day forward.
C21_State ==
    pc = "session" => (current_date % 7) \in reading_weekdays

C21_Step ==
    (pc \in {"outer", "session", "advance"}
     /\ (current_date % 7) \notin reading_weekdays) =>
        /\ events' = events
        /\ books_completed' = books_completed
        /\ current_book_index' = current_book_index
        /\ current_book_remaining_min' = current_book_remaining_min
        /\ pc' # "session"
        /\ IF pc = "advance" THEN current_date' = current_date + 1
                             ELSE current_date' = current_date

C21_NonReadingDay == []C21_State /\ [][C21_Step]_vars

C21_Witness ==
    /\ pc = "outer"
    /\ current_date - 1 >= start_date
    /\ ((current_date - 1) % 7) \notin reading_weekdays
    /\ events # <<>>
    /\ current_book_index < Len(book_schedule_list)
    /\ current_book_remaining_min < Required(current_book_index + 1)

\* C22: a reading session lasts the smaller of the day's remaining session
\* minutes and the current book's remaining minutes, both taken just before
\* it is emitted; the first session of a reading day starts at the
\* start-of-reading time of that day and each later one where the previous
\* session of the day ended; both remaining counters go down by exactly the
\* session's minutes (after which a completion loads the next book's
\* minutes, or, for the last book, clears the session minutes).
LastReading(evs) ==
    LET idxs == { i \in 1..Len(evs) : IsReading(evs[i]) }
    IN  evs[CHOOSE i \in idxs : \A j \in idxs : j <= i]

C22_State ==
    pc = "session" =>
        session_start_time =
            current_date * DayTicks + start_time_books
            + (daily_time_total_minutes - remaining_session_time)

C22_Step ==
    (pc = "session" /\ events' # events) =>
        LET e == events'[Len(events) + 1]
            m == IF remaining_session_time <= current_book_remaining_min
                 THEN remaining_session_time ELSE current_book_remaining_min
            first == remaining_session_time = daily_time_total_minutes
            n == Len(book_schedule_list)
        IN  /\ IsReading(e)
            /\ e.summary[2] = book_schedule_list[current_book_index + 1].title
            /\ e.minutes = m
            /\ m > 0
            /\ e.dt_start = session_start_time
            /\ first => e.dt_start = current_date * DayTicks + start_time_books
            /\ ~ first =>
                  e.dt_start = LastReading(events).dt_start
                               + LastReading(events).minutes
            /\ session_start_time' = e.dt_start + m
            /\ remaining_session_time' =
                  IF current_book_index' = n THEN 0
                  ELSE remaining_session_time - m
            /\ current_book_remaining_min' =
                  IF current_book_index' = current_book_index
                     \/ current_book_index' = n
                  THEN current_book_remaining_min - m
                  ELSE Required(current_book_index' + 1)

C22_SessionAllocation == []C22_State /\ [][C22_Step]_vars

C22_Witness ==
    /\ pc = "session"
    /\ \E i, j, k \in 1..Len(events) :
          /\ i < j /\ j < k /\ k = Len(events)
          /\ IsReading(events[i]) /\ IsReading(events[j]) /\ IsReading(events[k])
          /\ events[i].dt_start < current_date * DayTicks
          /\ events[j].dt_start = current_date * DayTicks + start_time_books
          /\ events[k].dt_start = events[j].dt_start + events[j].minutes
          /\ events[k].minutes = daily_time_total_minutes - events[j].minutes
          /\ events[k].minutes < Required(2)

\* C23: a book that requires 0 minutes stalls the plan.  The book index
\* never passes such a book; while it is the current book, a pass of the
\* session loop on a reading day leaves the loop by the zero-duration guard
\* with nothing changed; neither that book nor any book after it gets a
\* reading session, a review event or a ledger record; and the run ends only
\* with the loop date past the end date.
ZeroBooks ==
    { i \in 1..Len(book_schedule_list) : Required(i) = 0 }

C23_State ==
    \A z \in ZeroBooks :
        /\ current_book_index < z
        /\ \A j \in z..Len(book_schedule_list) :
              LET title == book_schedule_list[j].title
              IN  /\ \A i \in 1..Len(events) :
                        /\ events[i].summary # ReadingSummary(title)
                        /\ events[i].summary # ReviewSummary(title)
                  /\ \A i \in 1..Len(books_completed) :
                        books_completed[i].Libro # title
        /\ \A i \in 1..Len(events) : ~ IsFinal(events[i])
        /\ pc \in {"stats", "done"} => current_date = end_date + 1

C23_Step ==
    (pc = "session" /\ remaining_session_time > 0
     /\ (current_book_index + 1) \in ZeroBooks) =>
        /\ pc' = "advance"
        /\ UNCHANGED localVars

C23_ZeroBookStalls == []C23_State /\ [][C23_Step]_vars

C23_Witness ==
    /\ pc = "done"
    /\ Len(book_schedule_list) = 2
    /\ ZeroBooks = {2}
    /\ current_book_index = 1
    /\ Len(books_completed) = 1
    /\ books_completed[1].Fecha + 3 <= end_date
    /\ remaining_session_time > 0
    /\ current_date = end_date + 1

\* C24: with every book requiring more than 0 minutes and a positive budget,
\* the reading sessions emitted for a loop date, plus the final integration
\* event when it is emitted for that date, last the daily budget in total on
\* every reading day the loop has finished processing; while a day is being
\* processed they last the budget less the remaining session minutes; on no
\* day do they exceed the budget, and a non-reading day has none.
LoopDateOf(e) == (e.dt_start - start_time_books) \div DayTicks

\* minutes of the first n events per loop date: reading sessions and the
\* final integration event count for the date on which their day's sessions
\* began
RECURSIVE DayTotals(_)
DayTotals(n) ==
    IF n = 0 THEN [d \in start_date..end_date |-> 0]
    ELSE LET e == events[n]
             f == DayTotals(n - 1)
         IN  IF IsReading(e) \/ IsFinal(e)
             THEN [f EXCEPT ![LoopDateOf(e)] = @ + e.minutes]
             ELSE f

DayTotalMinutes(d) == DayTotals(Len(events))[d]

C24_BudgetUsed ==
    pc \notin {"call", "idle"} =>
      LET totals == DayTotals(Len(events))
      IN
        \A d \in start_date..end_date :
            LET total == totals[d]
                reading_day == (d % 7) \in reading_weekdays
                processed == d < current_date
                             \/ (d = current_date /\ pc = "advance")
            IN  /\ total <= daily_time_total_minutes
                /\ (reading_day /\ processed)
                       => total = daily_time_total_minutes
                /\ (reading_day /\ d = current_date /\ pc = "session")
                       => total = daily_time_total_minutes
                                  - remaining_session_time
                /\ (~ reading_day \/ d > current_date) => total = 0

C24_Witness ==
    /\ pc = "done"
    /\ Len(book_schedule_list) = 2
    /\ \E i, j, k \in 1..Len(events) :
          /\ IsReading(events[i]) /\ IsReading(events[j]) /\ IsFinal(events[k])
          /\ events[i].minutes = daily_time_total_minutes
          /\ DateOf(events[i].dt_start) < DateOf(events[j].dt_start)
          /\ events[j].summary # events[i].summary
          /\ DayTotalMinutes(LoopDateOf(events[k]))
                = daily_time_total_minutes
          /\ events[j].minutes + events[k].minutes < daily_time_total_minutes

\* C25: books are consumed in list order.  In every state the ledger is as
\* long as the book index and holds the titles of the first books of the
\* list, in list order, with completion dates that never decrease; and every
\* reading session of a book is appended before, and starts before, every
\* reading session of a book later in the list.
C25_ListOrder ==
    /\ Len(books_completed) = current_book_index
    /\ current_book_index <= Len(book_schedule_list)
    /\ \A k \in 1..Len(books_completed) :
          books_completed[k].Libro = book_schedule_list[k].title
    /\ \A k, l \in 1..Len(books_completed) :
          k < l => books_completed[k].Fecha <= books_completed[l].Fecha
    /\ LET reading == { p \in 1..Len(events) : IsReading(events[p]) }
           BookOf(p) == CHOOSE i \in 1..Len(book_schedule_list) :
                            book_schedule_list[i].title = events[p].summary[2]
       IN  \A p, q \in reading :
               BookOf(p) < BookOf(q)
                   => (p < q /\ events[p].dt_start < events[q].dt_start)

C25_Witness ==
    /\ pc = "done"
    /\ Len(book_schedule_list) = 2
    /\ Len(books_completed) = 2
    /\ books_completed[1].Fecha < books_completed[2].Fecha
    /\ \E p, q, r \in 1..Len(events) :
          /\ p < q /\ q < r
          /\ events[p].summary = ReadingSummary(book_schedule_list[1].title)
          /\ events[q].summary = ReadingSummary(book_schedule_list[1].title)
          /\ events[r].summary = ReadingSummary(book_schedule_list[2].title)
          /\ DateOf(events[q].dt_start) = DateOf(events[r].dt_start)

\* C26: a book gets at most one reading session per processed reading day.
\* After a pass of the session loop that emitted a session, either the day
\* has no session minutes left or the book is complete; two reading sessions
\* of one title are never emitted for the same loop date; and when no
\* reading session starts past midnight of its loop date, the (start date,
\* title) pairs of the reading sessions, and with them their uids, are
\* pairwise distinct.
NoneStartsPastMidnight ==
    \A p \in 1..Len(events) :
        IsReading(events[p]) =>
            DateOf(events[p].dt_start) = LoopDateOf(events[p])

C26_State ==
    LET reading == { p \in 1..Len(events) : IsReading(events[p]) }
        proviso == NoneStartsPastMidnight
    IN  \A p, q \in reading :
            (p < q /\ events[p].summary = events[q].summary) =>
                /\ LoopDateOf(events[p]) # LoopDateOf(events[q])
                /\ proviso =>
                      /\ DateOf(events[p].dt_start) # DateOf(events[q].dt_start)
                      /\ events[p].uid # events[q].uid

C26_Step ==
    (pc = "session" /\ events' # events) =>
        \/ remaining_session_time' = 0
        \/ current_book_index' = current_book_index + 1

C26_OneSessionPerDay == []C26_State /\ [][C26_Step]_vars

C26_Witness ==
    /\ pc = "done"
    /\ NoneStartsPastMidnight
    /\ \E p, q, r \in 1..Len(events) :
          /\ p < q /\ q < r
          /\ IsReading(events[p]) /\ IsReading(events[q]) /\ IsReading(events[r])
          /\ events[p].summary = events[q].summary
          /\ events[q].summary # events[r].summary
          /\ DateOf(events[q].dt_start) = DateOf(events[r].dt_start)
          /\ events[q].uid # events[r].uid

\* C27: review events are not clipped to the plan window.  Every book in the
\* ledger, completed on a date d within the window, has its review event,
\* dated from d + 1 to d + 7; a book completed on the end date has its
\* review after the end date; and books completed on the same date have
\* reviews with the same start.
C27_ReviewsNotClipped ==
    LET reviews == BookReviews(events)
    IN  /\ Len(reviews) = Len(books_completed)
        /\ \A k \in 1..Len(books_completed) :
              LET d == books_completed[k].Fecha
                  r == DateOf(reviews[k].dt_start)
              IN  /\ start_date <= d /\ d <= end_date
                  /\ reviews[k].summary = ReviewSummary(books_completed[k].Libro)
                  /\ d + 1 <= r /\ r <= d + 7
                  /\ d = end_date => r > end_date
        /\ \A k, l \in 1..Len(books_completed) :
              books_completed[k].Fecha = books_completed[l].Fecha
                  => reviews[k].dt_start = reviews[l].dt_start

C27_Witness ==
    /\ pc = "done"
    /\ Len(books_completed) = 2
    /\ books_completed[1].Fecha = end_date
    /\ books_completed[2].Fecha = end_date
    /\ DateOf(BookReviews(events)[1].dt_start) = end_date + 7
    /\ BookReviews(events)[2].dt_start = BookReviews(events)[1].dt_start

\* C28: called with the same arguments, create_reading_plan of
\* plan_lectura.py and of plan_lectura_bilingue.py are at the same place
\* with the same loop date, book index, remaining book minutes and remaining
\* session minutes after every step, and whenever one can take a step the
\* other can take the same step; their event lists are equally long and
\* corresponding events have the same start, end, priority, status and
\* reminder offsets and are for the same book; their ledgers have the same
\* completion dates and hours; and the statistics they return are equal.
SameSchedule(e, b) ==
    /\ e.dtstart = b.dtstart
    /\ e.dtend = b.dtend
    /\ e.dt_start = b.dt_start
    /\ e.minutes = b.minutes
    /\ e.priority = b.priority
    /\ e.status = b.status
    /\ e.valarms = b.valarms
    /\ e.uid[1] = b.uid[1]
    /\ e.summary[2] = b.summary[2]

C28_VariantsAgree ==
    /\ b_pc = pc
    /\ b_current_date = current_date
    /\ b_current_book_index = current_book_index
    /\ b_current_book_remaining_min = current_book_remaining_min
    /\ b_remaining_session_time = remaining_session_time
    /\ b_session_start_time = session_start_time
    /\ b_total_book_hours_calc = total_book_hours_calc
    /\ (ENABLED Begin) <=> (ENABLED B_Begin)
    /\ (ENABLED LoopExit) <=> (ENABLED B_LoopExit)
    /\ (ENABLED SkipDay) <=> (ENABLED B_SkipDay)
    /\ (ENABLED StartDay) <=> (ENABLED B_StartDay)
    /\ (ENABLED EndDay) <=> (ENABLED B_EndDay)
    /\ (ENABLED SessionStep) <=> (ENABLED B_SessionStep)
    /\ (ENABLED AdvanceDate) <=> (ENABLED B_AdvanceDate)
    /\ (ENABLED Return) <=> (ENABLED B_Return)
    /\ Len(b_events) = Len(events)
    /\ \A i \in 1..Len(events) : SameSchedule(events[i], b_events[i])
    /\ Len(b_books_completed) = Len(books_completed)
    /\ \A k \in 1..Len(books_completed) :
          /\ b_books_completed[k].end_date = books_completed[k].Fecha
          /\ b_books_completed[k].total_hours = books_completed[k].Horas
          /\ b_books_completed[k].book_title = books_completed[k].Libro
    /\ (returned = <<>>) <=> (b_returned = <<>>)
    /\ returned # <<>> =>
          /\ Len(b_returned[1]) = Len(returned[1])
          /\ \A i \in 1..Len(returned[1]) :
                SameSchedule(returned[1][i], b_returned[1][i])
          /\ Len(b_returned[2]) = Len(returned[2])
          /\ \A k \in 1..Len(returned[2]) :
                /\ b_returned[2][k].end_date = returned[2][k].Fecha
                /\ b_returned[2][k].total_hours = returned[2][k].Horas
          /\ b_returned[3] = returned[3]

C28_Witness ==
    /\ pc = "done" /\ b_pc = "done"
    /\ Len(returned[2]) = 2
    /\ returned[2][1].Fecha < returned[2][2].Fecha
    /\ Len(b_returned[1]) >= 5
    /\ b_returned[1][Len(b_returned[1])].summary = t("final_review", "")
    /\ IsFinal(returned[1][Len(returned[1])])
    /\ returned[1][1].summary # b_returned[1][1].summary
    /\ returned[3].total_days < end_date + 1 - start_date

====
